---- MODULE Spec2Model ----
(***************************************************************************)
(* Model of src/index.js: the six extraction operations of browser-tools   *)
(* (getLoginData, getLoginDataEach, getCookies, getCookiesEach,            *)
(* getUrlHistory, getDownloadHistory), the private getBrowserFilePath, and *)
(* the callbacks they hand to sqlite3 (open, all, each).                   *)
(***************************************************************************)
EXTENDS Integers, Sequences, FiniteSets, TLC

\* ------------------------------------------------------------------ bounds
\* Largest number of rows a store table holds.
MaxRows == 2
\* Number of extraction calls a run may have in flight.
MaxCalls == 2

\* ------------------------------------------------------- JavaScript values
\* A JavaScript value: t is its type, n its number (or 0/1 for a boolean),
\* s its string (or the name of an opaque byte buffer).
JsUndefined == [t |-> "undefined", n |-> 0, s |-> ""]
JsNum(k) == [t |-> "number", n |-> k, s |-> ""]
JsStr(x) == [t |-> "string", n |-> 0, s |-> x]
JsBlob(x) == [t |-> "object", n |-> 0, s |-> x]
JsBool(b) == [t |-> "boolean", n |-> IF b THEN 1 ELSE 0, s |-> ""]

\* JavaScript truthiness of a value.
Truthy(v) ==
  CASE v.t = "undefined" -> FALSE
    [] v.t = "number" -> v.n # 0
    [] v.t = "string" -> v.s # ""
    [] v.t = "boolean" -> v.n = 1
    [] OTHER -> TRUE

\* Boolean(x): the coercion of the cookie flags.
Boolean(v) == JsBool(Truthy(v))

\* row.column: a property that is missing reads as undefined.
Get(row, k) == IF k \in DOMAIN row THEN row[k] ELSE JsUndefined

\* ------------------------------------------------------------------- paths
\* A path argument is undefined or a string; a string is held as its
\* sequence of segments between separators (the empty string has none, and
\* a leading, trailing or doubled separator gives an empty segment "").
PathUndefined == [kind |-> "undefined", segs |-> <<>>]
PathStr(segs) == [kind |-> "string", segs |-> segs]

\* !p of a path argument: undefined and the empty string are falsy.
Falsy(p) == p.kind = "undefined" \/ p.segs = <<>>

\* process.env.LOCALAPPDATA
LOCALAPPDATA == <<"C:", "Users", "user", "AppData", "Local">>

RECURSIVE DropEmpty(_)
DropEmpty(segs) ==
  IF segs = <<>> THEN <<>>
  ELSE IF Head(segs) = "" THEN DropEmpty(Tail(segs))
  ELSE <<Head(segs)>> \o DropEmpty(Tail(segs))

\* path.join(a, b, c): the parts joined by a separator and normalised, which
\* leaves the non-empty segments of a, b and c in order.
PathJoin(a, b, c) == PathStr(DropEmpty(a \o b \o c))

ChromeDir == <<"", "Google", "Chrome", "User Data", "Default", "">>
OperaDir == <<"", "Opera Software", "Opera Stable", "">>
YandexDir == <<"", "Yandex", "YandexBrowser", "User Data", "Default", "">>

getBrowserFilePathAllChrome(browser, fileName) ==
  IF browser \in {"chrome", "opera"} THEN PathJoin(LOCALAPPDATA, ChromeDir, <<fileName>>)
  ELSE IF browser = "yandex" THEN PathJoin(LOCALAPPDATA, YandexDir, <<fileName>>)
  ELSE PathUndefined

getBrowserFilePath(browser, fileName) ==
  IF browser = "chrome" THEN PathJoin(LOCALAPPDATA, ChromeDir, <<fileName>>)
  ELSE IF browser = "opera" THEN PathJoin(LOCALAPPDATA, OperaDir, <<fileName>>)
  ELSE IF browser = "yandex" THEN PathJoin(LOCALAPPDATA, YandexDir, <<fileName>>)
  ELSE PathUndefined

\* -------------------------------------------------------------- operations
Ops == {"getLoginData", "getLoginDataEach", "getCookies", "getCookiesEach",
        "getUrlHistory", "getDownloadHistory"}

EachOps == {"getLoginDataEach", "getCookiesEach"}

\* The file name each operation passes to getBrowserFilePath.
FileOf(o) ==
  CASE o \in {"getLoginData", "getLoginDataEach"} -> "Login Data"
    [] o \in {"getCookies", "getCookiesEach"} -> "Cookies"
    [] OTHER -> "History"

\* The table of each operation's SELECT * FROM <table>.
TableOf(o) ==
  CASE o \in {"getLoginData", "getLoginDataEach"} -> "logins"
    [] o \in {"getCookies", "getCookiesEach"} -> "cookies"
    [] o = "getUrlHistory" -> "urls"
    [] OTHER -> "downloads"

\* Whether the operation's open callback ends with db.close().
Closes(o) == o # "getDownloadHistory"

\* --------------------------------------------------------------- the store
\* Row i of each table, with the native columns the code reads and one
\* native column it does not. Timestamps are browser-epoch values cut to
\* fit 32-bit integers.
LoginRow(i) ==
  [origin_url |-> JsStr("https://example.com"),
   username_value |-> JsStr(IF i = 1 THEN "alice" ELSE "bob"),
   password_value |-> JsBlob("bytes"),
   signon_realm |-> JsNum(i)]

CookieRow(i) ==
  [host_key |-> JsStr(".a.com"),
   name |-> JsStr(IF i = 1 THEN "sid" ELSE ""),
   encrypted_value |-> JsBlob("bytes"),
   path |-> JsStr("/"),
   expires_utc |-> JsNum(1328100000 + i),
   secure |-> JsNum(i - 1),
   httponly |-> JsNum(i % 2),
   last_access_utc |-> JsNum(1328100000),
   has_expires |-> JsNum(1),
   persistent |-> JsNum(2 - i),
   priority |-> JsNum(i),
   creation_utc |-> JsNum(i)]

UrlRow(i) ==
  [id |-> JsNum(i),
   url |-> JsStr("https://a.com"),
   title |-> JsStr(IF i = 1 THEN "A" ELSE ""),
   visit_count |-> JsNum(3 * i),
   last_visit_time |-> JsNum(1328100000),
   typed_count |-> JsNum(0)]

DownloadRow(i) ==
  [id |-> JsNum(i),
   guid |-> JsStr("g"),
   current_path |-> JsStr("C:\\f"),
   target_path |-> JsStr("C:\\f"),
   total_bytes |-> JsNum(10 * i),
   referrer |-> JsStr(""),
   site_url |-> JsStr("https://a.com"),
   tab_url |-> JsStr("https://a.com"),
   mime_type |-> JsStr("text/plain"),
   state |-> JsNum(1)]

\* Row i of a table.
StoreRow(table, i) ==
  CASE table = "logins" -> LoginRow(i)
    [] table = "cookies" -> CookieRow(i)
    [] table = "urls" -> UrlRow(i)
    [] OTHER -> DownloadRow(i)

\* ------------------------------------------------------------- projections
LoginProjectSwapped(row) ==
  [originUrl |-> Get(row, "origin_url"),
   username |-> Get(row, "password_value"),
   password |-> Get(row, "username_value")]

LoginProject(row) ==
  [originUrl |-> Get(row, "origin_url"),
   username |-> Get(row, "username_value"),
   password |-> Get(row, "password_value")]

CookieProject(row) ==
  [hostKey |-> Get(row, "host_key"),
   name |-> Get(row, "name"),
   value |-> Get(row, "encrypted_value"),
   path |-> Get(row, "path"),
   expiresUtc |-> Get(row, "expires_utc"),
   secure |-> Boolean(Get(row, "secure")),
   httpOnly |-> Boolean(Get(row, "httponly")),
   lastAccessUtc |-> Get(row, "last_access_utc"),
   expired |-> Boolean(Get(row, "has_expires")),
   persistent |-> Boolean(Get(row, "persistent")),
   priority |-> Boolean(Get(row, "priority"))]

UrlProjectKeepsNames(row) ==
  [id |-> Get(row, "id"),
   url |-> Get(row, "url"),
   title |-> Get(row, "title"),
   visits |-> IF "visits" \in DOMAIN row THEN row.visits ELSE Get(row, "visit_count"),
   lastVisit |-> IF "lastVisit" \in DOMAIN row THEN row.lastVisit
                 ELSE Get(row, "last_visit_time")]

UrlProject(row) ==
  [id |-> Get(row, "id"),
   url |-> Get(row, "url"),
   title |-> Get(row, "title"),
   visits |-> Get(row, "visit_count"),
   lastVisit |-> Get(row, "last_visit_time")]

DownloadProject(row) ==
  [id |-> Get(row, "id"),
   guid |-> Get(row, "guid"),
   currentPath |-> Get(row, "current_path"),
   targetPath |-> Get(row, "target_path"),
   totalBytes |-> Get(row, "total_bytes"),
   referrer |-> Get(row, "referrer"),
   siteUrl |-> Get(row, "site_url"),
   tabUrl |-> Get(row, "tab_url"),
   mimeType |-> Get(row, "mime_type")]

\* The record an operation pushes for a row: the projection of its kind when
\* limited is truthy, the row itself otherwise.
Pushed(o, lim, row) ==
  IF ~lim THEN row
  ELSE CASE TableOf(o) = "logins" -> LoginProject(row)
         [] TableOf(o) = "cookies" -> CookieProject(row)
         [] TableOf(o) = "urls" -> UrlProject(row)
         [] OTHER -> DownloadProject(row)

\* ------------------------------------------------------------------- state
Calls == 1 .. MaxCalls

Browsers == {"chrome", "opera", "yandex", "firefox"}

\* An override path that names a copied store.
BackupPath == PathStr(<<"D:", "backup", "store">>)

\* The values of the optional path argument: omitted, "" and a path.
FilePaths == {PathUndefined, PathStr(<<>>), BackupPath}

VARIABLES
  ncalls,     \* the number of calls the run makes
  browser,    \* the browser argument of the run's calls
  limited,    \* the limited argument of the run's calls
  filePath,   \* the optional path argument of the run's calls
  nrows,      \* the number of rows each table of the store holds
  op,         \* op[c]: the operation call c invoked, "none" before the call
  pc,         \* pc[c]: idle, opening, querying, done
  dbPath,     \* dbPath[c]: the path handed to new sqlite3.Database
  resolved,   \* resolved[c]: getBrowserFilePath was called
  conn,       \* conn[c]: none, open, closed
  queries,    \* queries[c]: number of SELECT statements issued
  delivered,  \* delivered[c]: rows db.each has handed to its callback
  acc,        \* acc[s]: the array (loginData, cookies, ...) of scope s
  log,        \* log[c]: what console.log printed, one array per call of it
  errs        \* errs[c]: what console.error printed, or "thrown"

vars == <<ncalls, browser, limited, filePath, nrows, op, pc, dbPath, resolved, conn,
          queries, delivered, acc, log, errs>>

args == <<ncalls, browser, limited, filePath, nrows>>

\* No call made yet.
Idle ==
  /\ op = [c \in Calls |-> "none"]
  /\ pc = [c \in Calls |-> "idle"]
  /\ dbPath = [c \in Calls |-> PathUndefined]
  /\ resolved = [c \in Calls |-> FALSE]
  /\ conn = [c \in Calls |-> "none"]
  /\ queries = [c \in Calls |-> 0]
  /\ delivered = [c \in Calls |-> 0]
  /\ acc = [c \in Calls |-> <<>>]
  /\ log = [c \in Calls |-> <<>>]
  /\ errs = [c \in Calls |-> <<>>]

\* The array a callback of call c pushes to: declared with let inside the
\* call's own callback, so each call has its own.
ScopeShared(c) == 1

ScopeOf(c) == c

\* if (!filePath) filePath = getBrowserFilePath(browser, fileName)
UsesResolverAlways(p) == TRUE

UsesResolver(p) == Falsy(p)

PathFor(o) ==
  IF UsesResolver(filePath) THEN getBrowserFilePath(browser, FileOf(o)) ELSE filePath

\* The rows 1..k of o's table as the operation pushes them.
RECURSIVE PushedRows(_, _, _)
PushedRows(o, lim, k) ==
  IF k = 0 THEN <<>>
  ELSE Append(PushedRows(o, lim, k - 1), Pushed(o, lim, StoreRow(TableOf(o), k)))

\* The operation's first statements: the path, then new sqlite3.Database,
\* whose open callback is pending.
Call(c, o) ==
  /\ c <= ncalls
  /\ pc[c] = "idle"
  /\ op' = [op EXCEPT ![c] = o]
  /\ resolved' = [resolved EXCEPT ![c] = UsesResolver(filePath)]
  /\ dbPath' = [dbPath EXCEPT ![c] = PathFor(o)]
  /\ pc' = [pc EXCEPT ![c] = "opening"]
  /\ UNCHANGED <<args, conn, queries, delivered, acc, log, errs>>

\* new sqlite3.Database given undefined for the file name throws in the
\* constructor: the exception leaves the operation.
CallThrows(c, o) ==
  /\ c <= ncalls
  /\ pc[c] = "idle"
  /\ PathFor(o).kind = "undefined"
  /\ op' = [op EXCEPT ![c] = o]
  /\ resolved' = [resolved EXCEPT ![c] = UsesResolver(filePath)]
  /\ dbPath' = [dbPath EXCEPT ![c] = PathFor(o)]
  /\ errs' = [errs EXCEPT ![c] = Append(@, "thrown")]
  /\ pc' = [pc EXCEPT ![c] = "done"]
  /\ UNCHANGED <<args, conn, queries, delivered, acc, log>>

\* The open callback with an error: console.error, return.
OpenFailedFallsThrough(c) ==
  /\ pc[c] = "opening"
  /\ errs' = [errs EXCEPT ![c] = Append(@, "open")]
  /\ queries' = [queries EXCEPT ![c] = @ + 1]
  /\ pc' = [pc EXCEPT ![c] = "querying"]
  /\ UNCHANGED <<args, op, dbPath, resolved, conn, delivered, acc, log>>

OpenFailed(c) ==
  /\ pc[c] = "opening"
  /\ errs' = [errs EXCEPT ![c] = Append(@, "open")]
  /\ pc' = [pc EXCEPT ![c] = "done"]
  /\ UNCHANGED <<args, op, dbPath, resolved, conn, queries, delivered, acc, log>>

\* The open callback without an error: the query is issued (db.all or
\* db.each, the Each operations declaring their array first), then db.close()
\* is called, which sqlite3 runs once the statement has finished.
OpenSucceeded(c) ==
  /\ pc[c] = "opening"
  /\ dbPath[c].kind = "string"
  /\ conn' = [conn EXCEPT ![c] = "open"]
  /\ queries' = [queries EXCEPT ![c] = @ + 1]
  /\ acc' = IF op[c] \in EachOps THEN [acc EXCEPT ![ScopeOf(c)] = <<>>] ELSE acc
  /\ pc' = [pc EXCEPT ![c] = "querying"]
  /\ UNCHANGED <<args, op, dbPath, resolved, delivered, log, errs>>

\* The connection once the statement has finished: sqlite3 then runs the
\* db.close() the open callback queued, if it queued one.
AfterStatement(c) == IF Closes(op[c]) THEN "closed" ELSE conn[c]

\* The db.all callback with an error: console.error, return.
AllFailed(c) ==
  /\ pc[c] = "querying"
  /\ op[c] \notin EachOps
  /\ errs' = [errs EXCEPT ![c] = Append(@, "query")]
  /\ conn' = [conn EXCEPT ![c] = AfterStatement(c)]
  /\ pc' = [pc EXCEPT ![c] = "done"]
  /\ UNCHANGED <<args, op, dbPath, resolved, queries, delivered, acc, log>>

\* The db.all callback with the rows: a new array, one push per row, then
\* console.log of the array.
AllSucceeded(c) ==
  /\ pc[c] = "querying"
  /\ op[c] \notin EachOps
  /\ acc' = [acc EXCEPT ![ScopeOf(c)] = PushedRows(op[c], limited, nrows)]
  /\ log' = [log EXCEPT ![c] = Append(@, acc'[ScopeOf(c)])]
  /\ conn' = [conn EXCEPT ![c] = AfterStatement(c)]
  /\ pc' = [pc EXCEPT ![c] = "done"]
  /\ UNCHANGED <<args, op, dbPath, resolved, queries, delivered, errs>>

\* The db.each callback with a row: one push, then console.log of the array
\* as it stands.
EachRowFresh(c) ==
  /\ pc[c] = "querying"
  /\ op[c] \in EachOps
  /\ delivered[c] < nrows
  /\ delivered' = [delivered EXCEPT ![c] = @ + 1]
  /\ acc' = [acc EXCEPT ![ScopeOf(c)] =
                <<Pushed(op[c], limited, StoreRow(TableOf(op[c]), delivered[c] + 1))>>]
  /\ log' = [log EXCEPT ![c] = Append(@, acc'[ScopeOf(c)])]
  /\ UNCHANGED <<args, op, pc, dbPath, resolved, conn, queries, errs>>

EachRow(c) ==
  /\ pc[c] = "querying"
  /\ op[c] \in EachOps
  /\ delivered[c] < nrows
  /\ delivered' = [delivered EXCEPT ![c] = @ + 1]
  /\ acc' = [acc EXCEPT ![ScopeOf(c)] =
                Append(@, Pushed(op[c], limited, StoreRow(TableOf(op[c]), delivered[c] + 1)))]
  /\ log' = [log EXCEPT ![c] = Append(@, acc'[ScopeOf(c)])]
  /\ UNCHANGED <<args, op, pc, dbPath, resolved, conn, queries, errs>>

\* The db.each callback with an error: console.error, return. sqlite3 calls
\* it so once, when stepping the statement fails, and the statement ends.
EachFailedClears(c) ==
  /\ pc[c] = "querying"
  /\ op[c] \in EachOps
  /\ errs' = [errs EXCEPT ![c] = Append(@, "query")]
  /\ acc' = [acc EXCEPT ![ScopeOf(c)] = <<>>]
  /\ log' = [log EXCEPT ![c] = Append(@, <<>>)]
  /\ conn' = [conn EXCEPT ![c] = AfterStatement(c)]
  /\ pc' = [pc EXCEPT ![c] = "done"]
  /\ UNCHANGED <<args, op, dbPath, resolved, queries, delivered>>

EachFailed(c) ==
  /\ pc[c] = "querying"
  /\ op[c] \in EachOps
  /\ errs' = [errs EXCEPT ![c] = Append(@, "query")]
  /\ conn' = [conn EXCEPT ![c] = AfterStatement(c)]
  /\ pc' = [pc EXCEPT ![c] = "done"]
  /\ UNCHANGED <<args, op, dbPath, resolved, queries, delivered, acc, log>>

\* db.each has handed over every row: no callback of the operation runs (it
\* passes no completion callback), the statement ends.
EachCompleted(c) ==
  /\ pc[c] = "querying"
  /\ op[c] \in EachOps
  /\ delivered[c] = nrows
  /\ conn' = [conn EXCEPT ![c] = AfterStatement(c)]
  /\ pc' = [pc EXCEPT ![c] = "done"]
  /\ UNCHANGED <<args, op, dbPath, resolved, queries, delivered, acc, log, errs>>

Next ==
  \/ \E c \in Calls, o \in Ops : Call(c, o)
  \/ \E c \in Calls, o \in Ops : CallThrows(c, o)
  \/ \E c \in Calls : OpenFailed(c)
  \/ \E c \in Calls : OpenSucceeded(c)
  \/ \E c \in Calls : AllFailed(c)
  \/ \E c \in Calls : AllSucceeded(c)
  \/ \E c \in Calls : EachRow(c)
  \/ \E c \in Calls : EachFailed(c)
  \/ \E c \in Calls : EachCompleted(c)

\* One call, with every browser, limited flag, path argument and store size.
Init ==
  /\ ncalls = 1
  /\ browser \in Browsers
  /\ limited \in BOOLEAN
  /\ filePath \in FilePaths
  /\ nrows \in 0 .. MaxRows
  /\ Idle

Spec == Init /\ [][Next]_vars

\* MaxCalls calls in flight together, each at its browser's default location.
InitMany ==
  /\ ncalls = MaxCalls
  /\ browser \in {"chrome", "firefox"}
  /\ limited \in BOOLEAN
  /\ filePath = PathUndefined
  /\ nrows \in 0 .. MaxRows
  /\ Idle

SpecMany == InitMany /\ [][Next]_vars

TypeOK ==
  /\ \A c \in Calls : pc[c] \in {"idle", "opening", "querying", "done"}
  /\ \A c \in Calls : delivered[c] \in 0 .. nrows

\* ------------------------------------------------------------------ claims
Range(q) == {q[i] : i \in DOMAIN q}

\* The multiset of the elements of a sequence.
BagOf(q) == [x \in Range(q) |-> Cardinality({i \in DOMAIN q : q[i] = x})]

KnownBrowsers == {"chrome", "opera", "yandex"}

OpenFailure(c) == "open" \in Range(errs[c])
QueryFailure(c) == "query" \in Range(errs[c])
Thrown(c) == "thrown" \in Range(errs[c])

\* The array a call has produced: the last one it printed, none printed
\* being no rows.
Produced(c) == IF log[c] = <<>> THEN <<>> ELSE log[c][Len(log[c])]

\* C1: every call that has ended has released the connection it opened.
\* Fails: getDownloadHistory never calls db.close().
C1_ConnectionReleased ==
  \A c \in Calls : pc[c] = "done" => conn[c] # "open"

\* C2: when opening the store fails the failure is reported, no SELECT is
\* issued and nothing is printed, and the call has ended.
C2_OpenFailureStops ==
  \A c \in Calls :
    /\ OpenFailure(c) \/ Thrown(c) =>
         pc[c] = "done" /\ queries[c] = 0 /\ log[c] = <<>> /\ conn[c] = "none"
    /\ pc[c] = "done" /\ conn[c] = "none" => Len(errs[c]) = 1
    /\ queries[c] > 0 => conn[c] # "none"

C2_Witness ==
  \E c \in Calls :
    /\ dbPath[c] = BackupPath
    /\ errs[c] = <<"open">>
    /\ pc[c] = "done"

\* C3: with an unsupported browser and no path argument, the undefined
\* result of getBrowserFilePath is not handed to new sqlite3.Database.
\* Fails: the operations pass it on unchecked.
C3_AbsentPathNotOpened ==
  \A c \in Calls :
    pc[c] # "idle" /\ browser \notin KnownBrowsers /\ filePath.kind = "undefined"
      => dbPath[c].kind # "undefined"

\* C4: a db.all call and a db.each call of the same table that both ran to
\* the end without an error produced the same multiset of rows.
C4_BulkEqualsStreaming ==
  \A b \in Calls, e \in Calls :
    /\ pc[b] = "done" /\ pc[e] = "done"
    /\ op[b] \notin EachOps /\ op[e] \in EachOps
    /\ TableOf(op[b]) = TableOf(op[e])
    /\ errs[b] = <<>> /\ errs[e] = <<>>
    => /\ BagOf(Produced(b)) = BagOf(Produced(e))
       /\ Len(Produced(b)) = nrows

C4_Witness ==
  \E b \in Calls, e \in Calls :
    /\ pc[b] = "done" /\ pc[e] = "done"
    /\ op[b] = "getCookies" /\ op[e] = "getCookiesEach"
    /\ errs[b] = <<>> /\ errs[e] = <<>>
    /\ limited
    /\ nrows >= 2
    /\ Len(Produced(e)) = nrows

\* C5: from the step that reports a query failure on, a call prints nothing
\* more and issues no second query, and the rows a db.each call pushed and
\* printed before the failure all stay.
C5_QueryFailureIsFinal ==
  /\ [][\A c \in Calls :
          QueryFailure(c)' =>
            /\ log'[c] = log[c]
            /\ acc'[c] = acc[c]
            /\ queries'[c] = 1 /\ queries[c] = 1
            /\ pc'[c] = "done"]_vars
  /\ [](\A c \in Calls :
          QueryFailure(c) /\ op[c] \in EachOps =>
            /\ Len(acc[c]) = delivered[c]
            /\ Len(log[c]) = delivered[c])

C5_Witness ==
  \E c \in Calls :
    /\ op[c] \in EachOps
    /\ QueryFailure(c)
    /\ delivered[c] >= 1
    /\ delivered[c] < nrows
    /\ Len(Produced(c)) = delivered[c]

\* What a call prints when it runs alone, as a function of its own
\* operation, arguments and progress: a db.all call prints the whole array
\* once, a db.each call the array after each row handed to it.
PrintedAlone(c) ==
  IF op[c] \in EachOps
  THEN [k \in 1 .. delivered[c] |-> PushedRows(op[c], limited, k)]
  ELSE IF pc[c] = "done" /\ conn[c] # "none" /\ ~QueryFailure(c)
       THEN <<PushedRows(op[c], limited, nrows)>>
       ELSE <<>>

\* C6: under every interleaving of the callbacks of calls in flight
\* together, each call prints exactly what it prints alone.
C6_Independent ==
  \A c \in Calls : log[c] = PrintedAlone(c)

C6_Witness ==
  \E a \in Calls, b \in Calls :
    /\ op[a] = "getUrlHistory" /\ op[b] = "getDownloadHistory"
    /\ browser = "chrome"
    /\ pc[a] = "done" /\ pc[b] = "done"
    /\ nrows >= 1
    /\ Len(log[a]) = 1 /\ Len(log[b]) = 1

\* The directory of each vendor under the local application-data directory.
VendorDir(b) ==
  CASE b = "chrome" -> <<"Google", "Chrome", "User Data", "Default">>
    [] b = "opera" -> <<"Opera Software", "Opera Stable">>
    [] b = "yandex" -> <<"Yandex", "YandexBrowser", "User Data", "Default">>

\* C7: the path getBrowserFilePath returned is, for chrome, opera and
\* yandex, the local application-data directory, then the vendor's
\* directory, then the file name; for any other browser it is undefined.
C7_ResolvedPath ==
  \A c \in Calls :
    resolved[c] =>
      IF browser \in KnownBrowsers
      THEN /\ dbPath[c].kind = "string"
           /\ SubSeq(dbPath[c].segs, 1, Len(LOCALAPPDATA)) = LOCALAPPDATA
           /\ dbPath[c].segs = LOCALAPPDATA \o VendorDir(browser) \o <<FileOf(op[c])>>
           /\ dbPath[c].segs[Len(dbPath[c].segs)] \in {"Login Data", "Cookies", "History"}
      ELSE dbPath[c] = PathUndefined

C7_Witness ==
  \E c \in Calls :
    /\ resolved[c]
    /\ browser = "opera"
    /\ op[c] = "getCookies"
    /\ dbPath[c].kind = "string"

\* The documented limited record of row i of a table, field by field from
\* the native columns.
Documented(table, i) ==
  LET row == StoreRow(table, i) IN
  CASE table = "logins" ->
         [originUrl |-> row.origin_url, username |-> row.username_value,
          password |-> row.password_value]
    [] table = "cookies" ->
         [hostKey |-> row.host_key, name |-> row.name, value |-> row.encrypted_value,
          path |-> row.path, expiresUtc |-> row.expires_utc,
          secure |-> JsBool(row.secure.n # 0), httpOnly |-> JsBool(row.httponly.n # 0),
          lastAccessUtc |-> row.last_access_utc,
          expired |-> JsBool(row.has_expires.n # 0),
          persistent |-> JsBool(row.persistent.n # 0),
          priority |-> JsBool(row.priority.n # 0)]
    [] table = "urls" ->
         [id |-> row.id, url |-> row.url, title |-> row.title,
          visits |-> row.visit_count, lastVisit |-> row.last_visit_time]
    [] OTHER ->
         [id |-> row.id, guid |-> row.guid, currentPath |-> row.current_path,
          targetPath |-> row.target_path, totalBytes |-> row.total_bytes,
          referrer |-> row.referrer, siteUrl |-> row.site_url, tabUrl |-> row.tab_url,
          mimeType |-> row.mime_type]

\* C8: with limited set, every printed array holds, for each row handed
\* over, the documented record of that row and nothing else, and a call that
\* ran to the end without an error produced one record per row of the table.
C8_LimitedRecords ==
  \A c \in Calls :
    limited =>
      /\ \A k \in DOMAIN log[c] : \A i \in DOMAIN log[c][k] :
           log[c][k][i] = Documented(TableOf(op[c]), i)
      /\ pc[c] = "done" /\ conn[c] # "none" /\ errs[c] = <<>> =>
           Len(Produced(c)) = nrows

C8_Witness ==
  \E c \in Calls :
    /\ limited
    /\ op[c] = "getLoginData"
    /\ pc[c] = "done"
    /\ nrows >= 2
    /\ Len(Produced(c)) = nrows
    /\ DOMAIN Produced(c)[1] = {"originUrl", "username", "password"}

\* C9 as stated: projecting an already-projected record yields the same
\* record. Fails: the projections read the native column names, which a
\* projected record does not have.
C9_ProjectionIdempotent ==
  \A c \in Calls :
    limited =>
      \A i \in DOMAIN Produced(c) :
        Pushed(op[c], TRUE, Produced(c)[i]) = Produced(c)[i]

\* The fields whose normalized name is the name of the native column read.
SameNamed(table) ==
  CASE table = "logins" -> {}
    [] table = "cookies" -> {"name", "path", "secure", "persistent", "priority"}
    [] table = "urls" -> {"id", "url", "title"}
    [] OTHER -> {"id", "guid", "referrer"}

\* The fields Boolean() coerces.
Coerced == {"secure", "httpOnly", "expired", "persistent", "priority"}

\* C9 amended: projecting an already-projected record keeps its field
\* names, keeps the value of every field whose name is the native column's,
\* and leaves undefined (false for a coerced flag) in every other field; the
\* result is a fixed point of the projection.
C9_ProjectionOfProjected ==
  \A c \in Calls :
    limited =>
      \A i \in DOMAIN Produced(c) :
        LET r == Produced(c)[i]
            p == Pushed(op[c], TRUE, r)
        IN /\ DOMAIN p = DOMAIN r
           /\ \A f \in DOMAIN r :
                p[f] = IF f \in SameNamed(TableOf(op[c])) THEN r[f]
                       ELSE IF f \in Coerced THEN JsBool(FALSE)
                       ELSE JsUndefined
           /\ Pushed(op[c], TRUE, p) = p

C9_Witness ==
  \E c \in Calls :
    /\ limited
    /\ op[c] = "getUrlHistory"
    /\ nrows >= 1
    /\ Len(Produced(c)) = nrows
    /\ Pushed(op[c], TRUE, Produced(c)[1]) # Produced(c)[1]

\* C10 as stated: whenever a path argument is supplied, whatever its value,
\* getBrowserFilePath is not called and the store is opened at that path.
\* Fails for the empty string, which !filePath takes as not supplied.
C10_OverrideBypasses ==
  \A c \in Calls :
    pc[c] # "idle" /\ filePath.kind = "string" =>
      ~resolved[c] /\ dbPath[c] = filePath

\* C10 amended: whenever a non-empty path argument is supplied,
\* getBrowserFilePath is not called and the store is opened at that path,
\* whatever the browser; an empty or omitted one goes to getBrowserFilePath.
C10_NonEmptyOverrideBypasses ==
  \A c \in Calls :
    pc[c] # "idle" =>
      /\ filePath.kind = "string" /\ filePath.segs # <<>> =>
           ~resolved[c] /\ dbPath[c] = filePath
      /\ filePath.kind = "undefined" \/ filePath.segs = <<>> => resolved[c]

C10_Witness ==
  \E c \in Calls :
    /\ filePath = BackupPath
    /\ browser = "firefox"
    /\ conn[c] = "open"
    /\ dbPath[c] = BackupPath

====
